---- MODULE Spec2Model ----
(***************************************************************************)
(* PlantGuardian: the Express server that receives the ESP32's sensor line *)
(* (POST /data), serves the current reading (GET /data) and relays servo   *)
(* commands to the device (POST /servo, GET /servo-check).                 *)
(*                                                                         *)
(* Text is modelled as a sequence of one-character strings, so that        *)
(* split, trim, includes, parseInt and parseFloat are computed character   *)
(* by character as the JavaScript built-ins compute them.                  *)
(*                                                                         *)
(* The handlers are those of server.js; the integrated servers keep the    *)
(* same handlers for the in-memory state and add database writes.          *)
(***************************************************************************)
EXTENDS Integers, Sequences, FiniteSets, Bags, TLC

(***************************************************************************)
(* sensorData  the module-level object: the current reading and, in the    *)
(*             property requestedServoPosition, the command mailbox        *)
(* res         the response to the last request: status code and JSON body *)
(* now         the server's clock, read by new Date()                      *)
(* hist, nSet, nDelivered, stale                                           *)
(*             history kept by the model, not by the program: the journal  *)
(*             of mailbox requests, the number of POST /servo requests,    *)
(*             the number of polls answered success, and whether the last  *)
(*             ingest found a value it had to clear                        *)
(***************************************************************************)
VARIABLES sensorData, res, now, hist, nSet, nDelivered, stale

(***************************************************************************)
(* The integrated server writes to durable sinks, and every write settles  *)
(* after the handler that started it has answered.                         *)
(* files      the files under logs/: the lines appended to each            *)
(* db         the MongoDB collections SensorData and Log: their documents  *)
(* inflight   the asynchronous operations started and not yet settled,     *)
(*            fs.appendFile calls and document saves: a bag, since any of  *)
(*            them may settle next                                         *)
(* failed, ingested, query                                                 *)
(*            history kept by the model: the sinks that have failed a      *)
(*            write, the bodies of the POST /data requests so far, and     *)
(*            the query strings of the last GET /data/history or GET /logs *)
(* server     the start of the process: whether mongoose has connected,    *)
(*            and whether server.listen has been called                    *)
(* resolved   history kept by the model: what the promises of              *)
(*            saveSensorData and saveLog have settled to                   *)
(***************************************************************************)
VARIABLES files, db, inflight, failed, ingested, query, server, resolved

durable == <<files, db, inflight, failed, ingested, query, server, resolved>>

vars == <<sensorData, res, now, hist, nSet, nDelivered, stale, durable>>

(***************************************************************************)
(* Bounds of the model.                                                    *)
(***************************************************************************)
MaxTokens == 2
MaxTime == 5
MaxSet == 2
HistLen == 4
MaxParts == 3
MaxData == 2
MaxServo == 1
MaxFaulty == 1
MaxStamp == 2
MaxReadings == 3
MaxRecords == 2
MaxRequests == 2
MaxThrown == 1

(***************************************************************************)
(* JavaScript values.  A number is n / 10^e, normalised so that e = 0 or   *)
(* n is not a multiple of 10; a string carries its characters in s.        *)
(***************************************************************************)
Undefined == [t |-> "undefined", n |-> 0, e |-> 0, s |-> <<>>]
Null == [t |-> "null", n |-> 0, e |-> 0, s |-> <<>>]
NaN == [t |-> "NaN", n |-> 0, e |-> 0, s |-> <<>>]
Str(chars) == [t |-> "string", n |-> 0, e |-> 0, s |-> chars]
Integer(m) == [t |-> "number", n |-> m, e |-> 0, s |-> <<>>]

RECURSIVE Num(_, _)
Num(m, k) ==
  IF k > 0 /\ m % 10 = 0 THEN Num(m \div 10, k - 1)
  ELSE [t |-> "number", n |-> m, e |-> k, s |-> <<>>]

(* new Date().toISOString(): the instant, as an ISO-8601 string *)
toISOString(instant) == [t |-> "isostring", n |-> instant, e |-> 0, s |-> <<>>]

(***************************************************************************)
(* String built-ins.                                                       *)
(***************************************************************************)
Digits == <<"0", "1", "2", "3", "4", "5", "6", "7", "8", "9">>
DigitChars == {Digits[i] : i \in 1..10}
DigitTable == [c \in DigitChars |-> (CHOOSE i \in 1..10 : Digits[i] = c) - 1]
IsDigit(c) == c \in DigitChars
DigitVal(c) == DigitTable[c]
IsSpace(c) == c = " "

RECURSIVE TrimStart(_)
TrimStart(s) ==
  IF s # <<>> /\ IsSpace(Head(s)) THEN TrimStart(Tail(s)) ELSE s

RECURSIVE TrimEnd(_)
TrimEnd(s) ==
  IF s # <<>> /\ IsSpace(s[Len(s)]) THEN TrimEnd(SubSeq(s, 1, Len(s) - 1))
  ELSE s

trim(s) == TrimEnd(TrimStart(s))

(* s.indexOf(c, i): the first position at or after i that holds c, or 0 *)
RECURSIVE indexOf(_, _, _)
indexOf(s, c, i) ==
  IF i > Len(s) THEN 0 ELSE IF s[i] = c THEN i ELSE indexOf(s, c, i + 1)

includes(s, c) == indexOf(s, c, 1) # 0

(* s.split(sep): the pieces of s between the occurrences of sep *)
RECURSIVE split(_, _)
split(s, sep) ==
  LET j == indexOf(s, sep, 1)
  IN  IF j = 0 THEN <<s>>
      ELSE <<SubSeq(s, 1, j - 1)>> \o split(SubSeq(s, j + 1, Len(s)), sep)

(* the longest prefix of s made of digits *)
RECURSIVE DigitPrefix(_)
DigitPrefix(s) ==
  IF s # <<>> /\ IsDigit(Head(s)) THEN <<Head(s)>> \o DigitPrefix(Tail(s))
  ELSE <<>>

RECURSIVE DigitsValue(_, _)
DigitsValue(ds, acc) ==
  IF ds = <<>> THEN acc ELSE DigitsValue(Tail(ds), acc * 10 + DigitVal(Head(ds)))

HasSign(s) == s # <<>> /\ Head(s) \in {"-", "+"}
Signum(s) == IF s # <<>> /\ Head(s) = "-" THEN -1 ELSE 1
Unsigned(s) == IF HasSign(s) THEN Tail(s) ELSE s

(* parseInt(string): leading white space, a sign, then decimal digits;    *)
(* NaN when no digit is found.  (No input of the model starts with 0x.)    *)
parseInt(string) ==
  LET s == TrimStart(string)
      ds == DigitPrefix(Unsigned(s))
  IN  IF ds = <<>> THEN NaN ELSE Integer(Signum(s) * DigitsValue(ds, 0))

(* parseFloat(string): leading white space, a sign, digits, and a          *)
(* fraction; NaN when neither part has a digit.  (No input of the model    *)
(* carries an exponent or spells Infinity.)                                *)
parseFloat(string) ==
  LET s == TrimStart(string)
      u == Unsigned(s)
      ip == DigitPrefix(u)
      rest == SubSeq(u, Len(ip) + 1, Len(u))
      fp == IF rest # <<>> /\ Head(rest) = "." THEN DigitPrefix(Tail(rest))
            ELSE <<>>
  IN  IF ip = <<>> /\ fp = <<>> THEN NaN
      ELSE Num(Signum(s) * DigitsValue(fp, DigitsValue(ip, 0)), Len(fp))

(***************************************************************************)
(* The keys of the line protocol, and JSON serialisation.                  *)
(***************************************************************************)
Moisture == <<"M", "o", "i", "s", "t", "u", "r", "e">>
Light == <<"L", "i", "g", "h", "t">>
Water == <<"W", "a", "t", "e", "r">>
Temp == <<"T", "e", "m", "p">>
Humid == <<"H", "u", "m", "i", "d">>
Servo == <<"S", "e", "r", "v", "o">>

(* the properties the parse step resets before scanning (lines 56-64) *)
SensorFields ==
  {"moisture", "moistureStatus", "light", "lightStatus", "water",
   "waterStatus", "temperature", "humidity", "servo"}

(* JSON.stringify of a property value: NaN is written as null *)
JsonValue(val) == IF val.t = "NaN" THEN Null ELSE val

(* res.json(obj): properties whose value is undefined are left out *)
Json(obj) ==
  [k \in {f \in DOMAIN obj : obj[f] # Undefined} |-> JsonValue(obj[k])]

(* a response body with a position property, left out when undefined *)
WithPosition(body, position) ==
  IF position = Undefined THEN body
  ELSE body @@ [position |-> JsonValue(position)]

(***************************************************************************)
(* The parse step of POST /data.                                           *)
(***************************************************************************)
(* a reset that forgets the servo field *)
ResetSensorValues_SkipServo(sd) ==
  [sd EXCEPT !.moisture = Null, !.moistureStatus = Null,
             !.light = Null, !.lightStatus = Null,
             !.water = Null, !.waterStatus = Null,
             !.temperature = Null, !.humidity = Null]

(* a reset that takes the pending command for one more sensor value *)
ResetSensorValues_AndRequest(sd) ==
  [sd EXCEPT !.moisture = Null, !.moistureStatus = Null,
             !.light = Null, !.lightStatus = Null,
             !.water = Null, !.waterStatus = Null,
             !.temperature = Null, !.humidity = Null, !.servo = Null,
             !.requestedServoPosition = Undefined]

ResetSensorValues(sd) ==
  [sd EXCEPT !.moisture = Null, !.moistureStatus = Null,
             !.light = Null, !.lightStatus = Null,
             !.water = Null, !.waterStatus = Null,
             !.temperature = Null, !.humidity = Null, !.servo = Null]

(* a branch that takes the value of an unknown key for the servo angle *)
AssignKey_UnknownIsServo(sd, key, value, nextIsStatus, nextPart) ==
  IF key = Moisture
    THEN [sd EXCEPT !.moisture = parseInt(value),
                    !.moistureStatus =
                       IF nextIsStatus THEN Str(trim(nextPart)) ELSE @]
  ELSE IF key = Light
    THEN [sd EXCEPT !.light = parseInt(value),
                    !.lightStatus =
                       IF nextIsStatus THEN Str(trim(nextPart)) ELSE @]
  ELSE IF key = Water
    THEN [sd EXCEPT !.water = parseInt(value),
                    !.waterStatus =
                       IF nextIsStatus THEN Str(trim(nextPart)) ELSE @]
  ELSE IF key = Temp THEN [sd EXCEPT !.temperature = parseFloat(value)]
  ELSE IF key = Humid THEN [sd EXCEPT !.humidity = parseFloat(value)]
  ELSE [sd EXCEPT !.servo = parseInt(value)]

(* the branch taken for one Key:Value part; a status is assigned only     *)
(* when the next part exists and has no colon (nextIsStatus)               *)
AssignKey(sd, key, value, nextIsStatus, nextPart) ==
  IF key = Moisture
    THEN [sd EXCEPT !.moisture = parseInt(value),
                    !.moistureStatus =
                       IF nextIsStatus THEN Str(trim(nextPart)) ELSE @]
  ELSE IF key = Light
    THEN [sd EXCEPT !.light = parseInt(value),
                    !.lightStatus =
                       IF nextIsStatus THEN Str(trim(nextPart)) ELSE @]
  ELSE IF key = Water
    THEN [sd EXCEPT !.water = parseInt(value),
                    !.waterStatus =
                       IF nextIsStatus THEN Str(trim(nextPart)) ELSE @]
  ELSE IF key = Temp THEN [sd EXCEPT !.temperature = parseFloat(value)]
  ELSE IF key = Humid THEN [sd EXCEPT !.humidity = parseFloat(value)]
  ELSE IF key = Servo THEN [sd EXCEPT !.servo = parseInt(value)]
  ELSE sd

(* an iteration that looks for the status past one Key:Value part *)
ParsePart_SkipKeys(sd, parts, i) ==
  LET part == trim(parts[i])
      j == IF i + 2 <= Len(parts) /\ includes(parts[i + 1], ":")
           THEN i + 2 ELSE i + 1
      nextIsStatus == j <= Len(parts) /\ ~includes(parts[j], ":")
      nextPart == IF j <= Len(parts) THEN parts[j] ELSE <<>>
      pieces == split(part, ":")
  IN  IF ~includes(part, ":") THEN sd
      ELSE AssignKey(sd, pieces[1], pieces[2], nextIsStatus, nextPart)

(* one iteration of the loop over parts; i is the 1-based index *)
ParsePart(sd, parts, i) ==
  LET part == trim(parts[i])
      nextIsStatus == i + 1 <= Len(parts) /\ ~includes(parts[i + 1], ":")
      nextPart == IF i + 1 <= Len(parts) THEN parts[i + 1] ELSE <<>>
      pieces == split(part, ":")
  IN  IF ~includes(part, ":") THEN sd
      ELSE AssignKey(sd, pieces[1], pieces[2], nextIsStatus, nextPart)

(* a loop that takes Servo for the last key of the line *)
RECURSIVE ParseLoop_UntilServo(_, _, _)
ParseLoop_UntilServo(sd, parts, i) ==
  IF i > Len(parts) \/ sd.servo # Null THEN sd
  ELSE ParseLoop_UntilServo(ParsePart(sd, parts, i), parts, i + 1)

(* a loop that gives up at the first value that fails to parse *)
RECURSIVE ParseLoop_AbortOnNaN(_, _, _)
ParseLoop_AbortOnNaN(sd, parts, i) ==
  IF i > Len(parts) \/ \E f \in SensorFields : sd[f] = NaN THEN sd
  ELSE ParseLoop_AbortOnNaN(ParsePart(sd, parts, i), parts, i + 1)

(* a loop that scans the parts from the last to the first *)
RECURSIVE ParseLoop_Backwards(_, _, _)
ParseLoop_Backwards(sd, parts, i) ==
  IF i > Len(parts) THEN sd
  ELSE ParsePart(ParseLoop_Backwards(sd, parts, i + 1), parts, i)

RECURSIVE ParseLoop(_, _, _)
ParseLoop(sd, parts, i) ==
  IF i > Len(parts) THEN sd
  ELSE ParseLoop(ParsePart(sd, parts, i), parts, i + 1)

(* the inner try block: rawData.split(',') throws a TypeError unless       *)
(* rawData is a string, and the catch leaves sensorData as it was          *)
ParseSensorData(sd, rawData) ==
  IF rawData.t = "string"
  THEN ParseLoop(ResetSensorValues(sd), split(rawData.s, ","), 1)
  ELSE sd

(***************************************************************************)
(* What a raw line mentions.  The key of a sensor field occurs in a line   *)
(* when the line contains the key's characters anywhere.                   *)
(***************************************************************************)
KeyOf(field) ==
  IF field \in {"moisture", "moistureStatus"} THEN Moisture
  ELSE IF field \in {"light", "lightStatus"} THEN Light
  ELSE IF field \in {"water", "waterStatus"} THEN Water
  ELSE IF field = "temperature" THEN Temp
  ELSE IF field = "humidity" THEN Humid
  ELSE Servo

Occurs(key, line) ==
  \E i \in 1..(Len(line) - Len(key) + 1) :
    \A j \in 1..Len(key) : line[i + j - 1] = key[j]

(* history kept by the model: before the ingest of rawData, some sensor    *)
(* field held a value whose key rawData does not carry                     *)
HeldStale(sd, rawData) ==
  \E f \in SensorFields :
    /\ sd[f] # Null
    /\ (rawData.t = "string" => ~Occurs(KeyOf(f), rawData.s))

(***************************************************************************)
(* Journal of the requests made to the command mailbox, kept by the model  *)
(* to state what successive requests were answered: the last HistLen       *)
(* POST /servo and GET /servo-check requests with their responses.         *)
(***************************************************************************)
Journal(h, entry) ==
  LET all == Append(h, entry)
  IN  IF Len(all) > HistLen THEN Tail(all) ELSE all

(***************************************************************************)
(* The process: started, connected to MongoDB and listening, which is how  *)
(* every request finds it.                                                 *)
(***************************************************************************)
Listening == [database |-> "connected", listening |-> TRUE]

(***************************************************************************)
(* Initial state: the module-level sensorData object.                      *)
(***************************************************************************)
Init ==
  /\ now = 0
  /\ sensorData =
       [timestamp |-> toISOString(0),
        moisture |-> Null, moistureStatus |-> Null,
        light |-> Null, lightStatus |-> Null,
        water |-> Null, waterStatus |-> Null,
        temperature |-> Null, humidity |-> Null, servo |-> Null,
        raw |-> Str(<<>>),
        requestedServoPosition |-> Undefined]
  /\ res = [code |-> 0, body |-> [status |-> "none"]]
  /\ hist = <<>>
  /\ nSet = 0
  /\ nDelivered = 0
  /\ stale = FALSE
  /\ files = [sensor_data |-> <<>>, sensors_data_csv |-> <<>>,
              servo_control |-> <<>>]
  /\ db = [SensorData |-> <<>>, Log |-> <<>>]
  /\ inflight = EmptyBag
  /\ failed = {}
  /\ ingested = <<>>
  /\ query = [path |-> "none"]
  /\ server = Listening
  /\ resolved = {}

(***************************************************************************)
(* Request handlers.                                                       *)
(***************************************************************************)
(* an ingest seen half-way, after raw and timestamp are stored and before  *)
(* the line is parsed                                                      *)
DataPost_RawOnly(body) ==
  LET rawData == body
      stamped == [sensorData EXCEPT !.raw = rawData,
                                    !.timestamp = toISOString(now)]
  IN  /\ sensorData' = stamped
      /\ res' = [code |-> 200,
                 body |-> [status |-> "success", message |-> "Data received"]]
      /\ stale' = HeldStale(sensorData, rawData)
      /\ UNCHANGED <<durable, now, hist, nSet, nDelivered>>

(* server.post('/data'): body is req.body.data *)
DataPost(body) ==
  LET rawData == body
      stamped == [sensorData EXCEPT !.raw = rawData,
                                    !.timestamp = toISOString(now)]
  IN  /\ sensorData' = ParseSensorData(stamped, rawData)
      /\ res' = [code |-> 200,
                 body |-> [status |-> "success", message |-> "Data received"]]
      /\ stale' = HeldStale(sensorData, rawData)
      /\ UNCHANGED <<durable, now, hist, nSet, nDelivered>>

(* server.get('/data') *)
DataGet ==
  /\ res' = [code |-> 200, body |-> Json(sensorData)]
  /\ UNCHANGED <<durable, sensorData, now, hist, nSet, nDelivered, stale>>

(* a POST /servo that keeps an unconsumed command instead of replacing it *)
ServoPost_KeepFirst(position) ==
  LET answer == [code |-> 200,
                 body |-> WithPosition(
                            [status |-> "success",
                             message |-> "Servo position request received"],
                            position)]
  IN  /\ nSet < MaxSet
      /\ sensorData' =
           IF sensorData.requestedServoPosition = Undefined
           THEN [sensorData EXCEPT !.requestedServoPosition = position]
           ELSE sensorData
      /\ res' = answer
      /\ hist' = Journal(hist, [op |-> "POST /servo", position |-> position,
                                res |-> answer])
      /\ nSet' = nSet + 1
      /\ UNCHANGED <<durable, now, nDelivered, stale>>

(* server.post('/servo'): position is req.body.position *)
ServoPost(position) ==
  LET answer == [code |-> 200,
                 body |-> WithPosition(
                            [status |-> "success",
                             message |-> "Servo position request received"],
                            position)]
  IN  /\ nSet < MaxSet
      /\ sensorData' = [sensorData EXCEPT !.requestedServoPosition = position]
      /\ res' = answer
      /\ hist' = Journal(hist, [op |-> "POST /servo", position |-> position,
                                res |-> answer])
      /\ nSet' = nSet + 1
      /\ UNCHANGED <<durable, now, nDelivered, stale>>

(* a poll that clears the slot before it reads the position *)
ServoCheck_ClearFirst ==
  IF sensorData.requestedServoPosition # Undefined
  THEN LET answer == [code |-> 200, body |-> [status |-> "success"]]
       IN  /\ sensorData' = [sensorData EXCEPT
                               !.requestedServoPosition = Undefined]
           /\ res' = answer
           /\ hist' = Journal(hist, [op |-> "GET /servo-check",
                                     position |-> Undefined, res |-> answer])
           /\ nDelivered' = nDelivered + 1
           /\ UNCHANGED <<durable, now, nSet, stale>>
  ELSE LET answer == [code |-> 200, body |-> [status |-> "no_request"]]
       IN  /\ res' = answer
           /\ hist' = Journal(hist, [op |-> "GET /servo-check",
                                     position |-> Undefined, res |-> answer])
           /\ UNCHANGED <<durable, sensorData, now, nSet, nDelivered, stale>>

(* a poll that tests the slot for truthiness: position 0 is never seen *)
ServoCheck_Truthy ==
  IF sensorData.requestedServoPosition \notin {Undefined, Integer(0)}
  THEN LET position == sensorData.requestedServoPosition
           answer == [code |-> 200,
                      body |-> WithPosition([status |-> "success"],
                                            position)]
       IN  /\ sensorData' = [sensorData EXCEPT
                               !.requestedServoPosition = Undefined]
           /\ res' = answer
           /\ hist' = Journal(hist, [op |-> "GET /servo-check",
                                     position |-> Undefined, res |-> answer])
           /\ nDelivered' = nDelivered + 1
           /\ UNCHANGED <<durable, now, nSet, stale>>
  ELSE LET answer == [code |-> 200, body |-> [status |-> "no_request"]]
       IN  /\ res' = answer
           /\ hist' = Journal(hist, [op |-> "GET /servo-check",
                                     position |-> Undefined, res |-> answer])
           /\ UNCHANGED <<durable, sensorData, now, nSet, nDelivered, stale>>

(* a poll that returns the pending position without clearing the slot *)
ServoCheck_NoClear ==
  IF sensorData.requestedServoPosition # Undefined
  THEN LET position == sensorData.requestedServoPosition
           answer == [code |-> 200,
                      body |-> WithPosition([status |-> "success"],
                                            position)]
       IN  /\ res' = answer
           /\ hist' = Journal(hist, [op |-> "GET /servo-check",
                                     position |-> Undefined, res |-> answer])
           /\ nDelivered' = nDelivered + 1
           /\ UNCHANGED <<durable, sensorData, now, nSet, stale>>
  ELSE LET answer == [code |-> 200, body |-> [status |-> "no_request"]]
       IN  /\ res' = answer
           /\ hist' = Journal(hist, [op |-> "GET /servo-check",
                                     position |-> Undefined, res |-> answer])
           /\ UNCHANGED <<durable, sensorData, now, nSet, nDelivered, stale>>

(* server.get('/servo-check') *)
ServoCheck ==
  IF sensorData.requestedServoPosition # Undefined
  THEN LET position == sensorData.requestedServoPosition
           answer == [code |-> 200,
                      body |-> WithPosition([status |-> "success"],
                                            position)]
       IN  /\ sensorData' = [sensorData EXCEPT
                               !.requestedServoPosition = Undefined]
           /\ res' = answer
           /\ hist' = Journal(hist, [op |-> "GET /servo-check",
                                     position |-> Undefined, res |-> answer])
           /\ nDelivered' = nDelivered + 1
           /\ UNCHANGED <<durable, now, nSet, stale>>
  ELSE LET answer == [code |-> 200, body |-> [status |-> "no_request"]]
       IN  /\ res' = answer
           /\ hist' = Journal(hist, [op |-> "GET /servo-check",
                                     position |-> Undefined, res |-> answer])
           /\ UNCHANGED <<durable, sensorData, now, nSet, nDelivered, stale>>

(* app/api/servo/route.ts: typeof position === "number" and 0..180 *)
RECURSIVE Pow10(_)
Pow10(k) == IF k = 0 THEN 1 ELSE 10 * Pow10(k - 1)

ValidPosition(position) ==
  /\ position.t = "number"
  /\ position.n >= 0
  /\ position.n <= 180 * Pow10(position.e)

(* app/api/servo/route.ts POST, reached through server.all('*'): it        *)
(* validates the position and answers; it holds no state                   *)
ApiServoPost(position) ==
  /\ res' = IF ValidPosition(position)
            THEN [code |-> 200,
                  body |-> [success |-> TRUE, position |-> position]]
            ELSE [code |-> 400,
                  body |-> [error |-> "Invalid position. Must be a number between 0 and 180."]]
  /\ UNCHANGED <<durable, sensorData, now, hist, nSet, nDelivered, stale>>

(* time passes between requests *)
Tick ==
  /\ now < MaxTime
  /\ now' = now + 1
  /\ UNCHANGED <<durable, sensorData, res, hist, nSet, nDelivered, stale>>

(***************************************************************************)
(* The integrated server: the same handlers for the memory, and writes to  *)
(* the files under logs/ and to MongoDB that settle later.                 *)
(***************************************************************************)
(* new Date(iso) and new Date(): a date, by its instant *)
Date(iso) == [t |-> "date", n |-> iso.n, e |-> 0, s |-> <<>>]

(* the data of a Log document (Mixed): the properties a kind of record     *)
(* does not carry are undefined                                            *)
LogData(raw, position, errorMessage) ==
  [raw |-> raw, position |-> position, errorMessage |-> errorMessage]

(* a Log document *)
LogDoc(timestamp, type, message, data) ==
  [timestamp |-> timestamp, type |-> type, message |-> message, data |-> data]

(* new Log({timestamp: new Date(), type, message, data}) *)
NewLog(type, message, data) ==
  LogDoc(Date(toISOString(now)), type, message, data)

(* new SensorData({...}): the properties of data, read when it is built *)
NewSensorData(data) ==
  [timestamp |-> Date(data.timestamp),
   moisture |-> data.moisture, moistureStatus |-> data.moistureStatus,
   light |-> data.light, lightStatus |-> data.lightStatus,
   water |-> data.water, waterStatus |-> data.waterStatus,
   temperature |-> data.temperature, humidity |-> data.humidity,
   servo |-> data.servo, raw |-> data.raw]

(* the operations in flight: an fs.appendFile or a document's save() *)
AppendFile(file, lines) == [file |-> file, lines |-> lines]
Save(collection, doc) == [collection |-> collection, doc |-> doc]
IsAppendFile(call) == "file" \in DOMAIN call
IsSave(call) == "collection" \in DOMAIN call

(* the operations in flight once those of calls are started, and once      *)
(* call has settled                                                        *)
RECURSIVE Started(_, _)
Started(flight, calls) ==
  IF calls = <<>> THEN flight
  ELSE Started(flight (+) SetToBag({Head(calls)}), Tail(calls))

Settled(flight, call) == flight (-) SetToBag({call})

(* saveLog up to its await: the document is built and its save started *)
saveLog(type, message, data) == Save("Log", NewLog(type, message, data))

saveServoLog(position) ==
  saveLog("servo", "Servo position set to", LogData(Undefined, position, ""))

saveErrorLog(message, errorMessage) ==
  saveLog("error", message, LogData(Undefined, Undefined, errorMessage))

(* saveSensorData up to its first await: the document is built from the    *)
(* object as it is now and its save started                                *)
saveSensorData(data) == Save("SensorData", NewSensorData(data))

csvColumns ==
  <<"timestamp", "moisture", "light", "water", "temperature", "humidity">>
csvHeaders == [kind |-> "header", columns |-> csvColumns, values |-> <<>>]
CsvRow(sd) ==
  [kind |-> "row", columns |-> csvColumns,
   values |-> [i \in 1..Len(csvColumns) |-> sd[csvColumns[i]]]]

(* server.post('/data') of the integrated server: body is req.body.data *)
IntegratedDataPost(body) ==
  LET rawData == body
      stamped == [sensorData EXCEPT !.raw = rawData,
                                    !.timestamp = toISOString(now)]
      parsed == ParseSensorData(stamped, rawData)
      parseError ==
        IF rawData.t = "string" THEN <<>>
        ELSE <<saveErrorLog("Error parsing sensor data", "TypeError")>>
      logEntry == [timestamp |-> parsed.timestamp, rawData |-> rawData]
      fileExists == Len(files.sensors_data_csv) > 0
      csvRow == IF fileExists THEN <<CsvRow(parsed)>>
                ELSE <<csvHeaders, CsvRow(parsed)>>
  IN  /\ Len(ingested) < MaxData
      /\ sensorData' = parsed
      /\ inflight' = Started(inflight,
                         parseError
                           \o <<AppendFile("sensor_data", <<logEntry>>),
                                AppendFile("sensors_data_csv", csvRow),
                                saveSensorData(parsed)>>)
      /\ res' = [code |-> 200,
                 body |-> [status |-> "success", message |-> "Data received"]]
      /\ stale' = HeldStale(sensorData, rawData)
      /\ ingested' = Append(ingested, rawData)
      /\ UNCHANGED <<now, hist, nSet, nDelivered, files, db, failed, query,
                     server, resolved>>

(* the response of a handler's outer catch *)
ServerError(message) ==
  [code |-> 500, body |-> [status |-> "error", message |-> message]]

(* a POST /data whose failure is swallowed: the error is logged and the    *)
(* request answered as received                                            *)
IntegratedDataPostNoBody_Swallowed ==
  /\ inflight' = Started(inflight,
                    <<saveErrorLog("Error processing data request",
                                   "TypeError")>>)
  /\ res' = [code |-> 200,
             body |-> [status |-> "success", message |-> "Data received"]]
  /\ UNCHANGED <<sensorData, now, hist, nSet, nDelivered, stale, files, db,
                 failed, ingested, query, server, resolved>>

(* server.post('/data') for a request without a parsed body: req.body is   *)
(* undefined, `req.body.data` throws a TypeError before anything is        *)
(* assigned, and the outer catch logs the error and answers 500            *)
IntegratedDataPostNoBody ==
  /\ inflight' = Started(inflight,
                    <<saveErrorLog("Error processing data request",
                                   "TypeError")>>)
  /\ res' = ServerError("TypeError")
  /\ UNCHANGED <<sensorData, now, hist, nSet, nDelivered, stale, files, db,
                 failed, ingested, query, server, resolved>>

(* server.post('/servo') of the integrated server *)
IntegratedServoPost(position) ==
  LET answer == [code |-> 200,
                 body |-> WithPosition(
                            [status |-> "success",
                             message |-> "Servo position request received"],
                            position)]
      logEntry == [timestamp |-> toISOString(now), position |-> position]
  IN  /\ nSet < MaxSet
      /\ sensorData' = [sensorData EXCEPT !.requestedServoPosition = position]
      /\ inflight' = Started(inflight,
                         <<AppendFile("servo_control", <<logEntry>>),
                           saveServoLog(position)>>)
      /\ res' = answer
      /\ hist' = Journal(hist, [op |-> "POST /servo", position |-> position,
                                res |-> answer])
      /\ nSet' = nSet + 1
      /\ UNCHANGED <<now, nDelivered, stale, files, db, failed, ingested, query,
                     server, resolved>>

(* the message of the error log for a file that could not be written *)
WriteError ==
  [sensor_data |-> "Error writing to file log",
   sensors_data_csv |-> "Error writing to CSV file",
   servo_control |-> "Error writing to servo log file"]

(* the callback of an fs.appendFile in flight: the lines are in the file,  *)
(* or err is set and an error log is started                               *)
AppendFileCallback(call, err) ==
      /\ IsAppendFile(call)
      /\ IF err
         THEN /\ inflight' = Started(Settled(inflight, call),
                     <<saveErrorLog(WriteError[call.file], "EIO")>>)
              /\ failed' = failed \cup {call.file}
              /\ UNCHANGED files
         ELSE /\ files' = [files EXCEPT ![call.file] = @ \o call.lines]
              /\ inflight' = Settled(inflight, call)
              /\ UNCHANGED failed
      /\ UNCHANGED <<sensorData, res, now, hist, nSet, nDelivered, stale,
                     db, ingested, query, server, resolved>>

(* an async function whose catch block throws the error again *)
Resolves_Rethrows(ok) == IF ok THEN "true" ELSE "rejected"

(* what the promise of saveSensorData or saveLog settles to once the       *)
(* save() it awaits has settled: `return true`, or `return false` from     *)
(* the catch block                                                         *)
Resolves(ok) == IF ok THEN "true" ELSE "false"

Promise(fn, value) == [fn |-> fn, value |-> value]

(* the promises settled by the settling of call: that of saveLog for a     *)
(* Log document; that of saveSensorData when its Reading is rejected, or   *)
(* when the saveLog('sensor') it awaits last has settled, whatever saveLog *)
(* returned                                                                *)
Outcomes(call, ok) ==
  IF call.collection = "SensorData"
  THEN IF ok THEN {} ELSE {Promise("saveSensorData", Resolves(ok))}
  ELSE {Promise("saveLog", Resolves(ok))}
         \cup IF call.doc.type = "sensor"
              THEN {Promise("saveSensorData",
                            IF Resolves(ok) = "rejected" THEN Resolves(FALSE)
                            ELSE "true")}
              ELSE {}

(* saveSensorData(sensorData).catch(...) of POST /data: the handler of a   *)
(* rejection starts an error log; the handlers on saveLog's callers only   *)
(* print                                                                   *)
Rejection(outcomes) ==
  IF Promise("saveSensorData", "rejected") \in outcomes
  THEN <<saveErrorLog("Error saving sensor data to MongoDB", "rejected")>>
  ELSE <<>>

(* a save that fails the request that started it, after the fact *)
SaveSettled_FailsRequest(call, ok) ==
      /\ IsSave(call)
      /\ IF ok
         THEN /\ db' = [db EXCEPT ![call.collection] = Append(@, call.doc)]
              /\ inflight' =
                   IF call.collection = "SensorData"
                   THEN Started(Settled(inflight, call),
                          <<saveLog("sensor", "Sensor data received",
                                    LogData(sensorData.raw, Undefined, ""))>>)
                   ELSE Settled(inflight, call)
              /\ UNCHANGED <<failed, res, sensorData>>
         ELSE /\ inflight' = Settled(inflight, call)
              /\ failed' = failed \cup {call.collection}
              /\ res' = [code |-> 500, body |-> [status |-> "error"]]
              /\ sensorData' = ResetSensorValues(sensorData)
              /\ UNCHANGED db
      /\ resolved' = resolved \cup Outcomes(call, ok)
      /\ UNCHANGED <<now, hist, nSet, nDelivered, stale, files, ingested, query,
                     server>>

(* a save that writes the Reading as the object holds it when the save     *)
(* settles                                                                 *)
SaveSettled_SavesLive(call, ok) ==
      /\ IsSave(call)
      /\ IF ok
         THEN /\ db' = [db EXCEPT ![call.collection] =
                          Append(@, IF call.collection = "SensorData"
                                    THEN NewSensorData(sensorData)
                                    ELSE call.doc)]
              /\ inflight' =
                   IF call.collection = "SensorData"
                   THEN Started(Settled(inflight, call),
                          <<saveLog("sensor", "Sensor data received",
                                    LogData(sensorData.raw, Undefined, ""))>>)
                   ELSE Settled(inflight, call)
              /\ UNCHANGED failed
         ELSE /\ inflight' = Settled(inflight, call)
              /\ failed' = failed \cup {call.collection}
              /\ UNCHANGED db
      /\ resolved' = resolved \cup Outcomes(call, ok)
      /\ UNCHANGED <<sensorData, res, now, hist, nSet, nDelivered, stale,
                     files, ingested, query, server>>

(* the save() of a document in flight settles.  A Reading saved:           *)
(* saveSensorData goes on to saveLog('sensor', ..., {raw: data.raw}), and  *)
(* data is the sensorData object as it is by then.  A save that rejects:   *)
(* the catch of saveSensorData or saveLog returns false, and a promise     *)
(* that rejected would run the handler its caller attached.                *)
SaveSettled(call, ok) ==
      /\ IsSave(call)
      /\ IF ok
         THEN /\ db' = [db EXCEPT ![call.collection] = Append(@, call.doc)]
              /\ inflight' =
                   IF call.collection = "SensorData"
                   THEN Started(Settled(inflight, call),
                          <<saveLog("sensor", "Sensor data received",
                                    LogData(sensorData.raw, Undefined, ""))>>)
                   ELSE Settled(inflight, call)
              /\ UNCHANGED failed
         ELSE /\ inflight' = Started(Settled(inflight, call),
                                     Rejection(Outcomes(call, ok)))
              /\ failed' = failed \cup {call.collection}
              /\ UNCHANGED db
      /\ resolved' = resolved \cup Outcomes(call, ok)
      /\ UNCHANGED <<sensorData, res, now, hist, nSet, nDelivered, stale,
                     files, ingested, query, server>>

(***************************************************************************)
(* The queries over the collections.                                       *)
(***************************************************************************)
DefaultLimit == 100

(* parseInt(q) || fallback, for a query parameter q: a string or missing *)
OrDefault(q, fallback) ==
  LET v == IF q.t = "string" THEN parseInt(q.s) ELSE NaN
  IN  IF v = NaN \/ v = Integer(0) THEN fallback ELSE v.n

(* find(query).sort({timestamp: -1}): the documents found (their places   *)
(* in the collection), newest first; documents of one instant come in an  *)
(* order that is not specified                                             *)
sort(collection, found) ==
  LET n == Cardinality(found)
  IN  {[j \in 1..n |-> collection[order[j]]] :
         order \in {o \in [1..n -> found] :
                      /\ \A j, k \in 1..n : o[j] = o[k] => j = k
                      /\ \A j \in 1..(n - 1) :
                           collection[o[j]].timestamp.n
                             >= collection[o[j + 1]].timestamp.n}}

(* .skip(k) and .limit(k) of a cursor *)
skip(docs, k) == SubSeq(docs, k + 1, Len(docs))
limit(docs, k) == SubSeq(docs, 1, IF k < Len(docs) THEN k ELSE Len(docs))

(* a query that compares a bound exclusively *)
LogMatches_Exclusive(type, startDate, endDate, doc) ==
  /\ type # "" => doc.type = type
  /\ startDate.t = "isostring" => doc.timestamp.n > Date(startDate).n
  /\ endDate.t = "isostring" => doc.timestamp.n < Date(endDate).n

(* the query built by getLogs: type when given, $gte and $lte on timestamp *)
LogMatches(type, startDate, endDate, doc) ==
  /\ type # "" => doc.type = type
  /\ startDate.t = "isostring" => doc.timestamp.n >= Date(startDate).n
  /\ endDate.t = "isostring" => doc.timestamp.n <= Date(endDate).n

(* server.get('/data/history'): the query strings limit and skip; ok is    *)
(* whether the find resolves                                               *)
DataHistoryGet(limitQ, skipQ, ok) ==
  LET limitN == OrDefault(limitQ, DefaultLimit)
      skipN == OrDefault(skipQ, 0)
  IN  /\ query' = [path |-> "/data/history", limit |-> limitQ, skip |-> skipQ]
      /\ IF ok
         THEN /\ \E data \in sort(db.SensorData, DOMAIN db.SensorData) :
                   res' = [code |-> 200,
                           body |-> [rows |-> limit(skip(data, skipN), limitN)]]
              /\ UNCHANGED inflight
         ELSE /\ res' = [code |-> 500, body |-> [error |-> "find rejected"]]
              /\ inflight' = Started(inflight,
                   <<saveErrorLog("Error fetching sensor history",
                                  "find rejected")>>)
      /\ UNCHANGED <<sensorData, now, hist, nSet, nDelivered, stale,
                     files, db, failed, ingested, server, resolved>>

(* server.get('/logs'): the query strings; type "" is a type not given *)
LogsGet(type, limitQ, skipQ, startDate, endDate, ok) ==
  LET limitN == OrDefault(limitQ, DefaultLimit)
      skipN == OrDefault(skipQ, 0)
      found == {i \in DOMAIN db.Log :
                  LogMatches(type, startDate, endDate, db.Log[i])}
  IN  /\ query' = [path |-> "/logs", type |-> type, startDate |-> startDate,
                    endDate |-> endDate]
      /\ IF ok
         THEN \E logs \in sort(db.Log, found) :
                res' = [code |-> 200,
                        body |-> [rows |-> limit(skip(logs, skipN), limitN)]]
         ELSE res' = [code |-> 500, body |-> [error |-> "find rejected"]]
      /\ UNCHANGED <<sensorData, now, hist, nSet, nDelivered, stale,
                     files, db, inflight, failed, ingested, server,
                     resolved>>

(***************************************************************************)
(* Requests.  A raw line is a comma-separated sequence of tokens.          *)
(***************************************************************************)
KeyValue(key, value) == key \o <<":">> \o value

Tokens ==
  {KeyValue(Moisture, <<"5">>), KeyValue(Light, <<"7">>),
   KeyValue(Water, <<"3">>), KeyValue(Temp, <<"2", ".", "5">>),
   KeyValue(Humid, <<"6", "0">>), KeyValue(Servo, <<"9">>),
   <<" ", "D", "R", "Y">>}

RECURSIVE join(_, _)
join(tokens, sep) ==
  IF tokens = <<>> THEN <<>>
  ELSE IF Len(tokens) = 1 THEN tokens[1]
  ELSE tokens[1] \o <<sep>> \o join(Tail(tokens), sep)

(* the lines of at most MaxTokens tokens, no token twice *)
Lines ==
  {join(ts, ",") :
     ts \in UNION {{q \in [1..n -> Tokens] :
                      \A i, j \in 1..n : q[i] = q[j] => i = j} :
                   n \in 0..MaxTokens}}

(* req.body.data: a raw line, or no string at all *)
NonStrings == {Undefined}
Bodies == {Str(l) : l \in Lines} \cup NonStrings

FullLine ==
  join(<<KeyValue(Moisture, <<"5">>), <<"D", "R", "Y">>,
         KeyValue(Light, <<"7">>), <<"O", "K">>,
         KeyValue(Water, <<"3">>), <<"L", "O", "W">>,
         KeyValue(Temp, <<"2", ".", "5">>), KeyValue(Humid, <<"6", "0">>),
         KeyValue(Servo, <<"9">>)>>, ",")

FewBodies == {Str(FullLine), Undefined}

(* req.body.position: in range, out of range, not a number, missing *)
Positions ==
  {Integer(0), Integer(90), Integer(200), Str(<<"u", "p">>), Undefined}

(***************************************************************************)
(* The server: any request, in any order.                                  *)
(***************************************************************************)
Next ==
  \/ \E body \in FewBodies : DataPost(body)
  \/ DataGet
  \/ \E position \in Positions : ServoPost(position)
  \/ ServoCheck
  \/ \E position \in Positions : ApiServoPost(position)

Spec == Init /\ [][Next]_vars

(* the device keeps polling GET /servo-check *)
SpecPolling == Spec /\ WF_vars(ServoCheck)

(* the reading store alone, over every raw line of the bounds *)
NextIngest ==
  \/ \E body \in Bodies : DataPost(body)
  \/ DataGet

SpecIngest == Init /\ [][NextIngest]_vars

(* the reading store as time passes *)
NextClock ==
  \/ \E body \in FewBodies : DataPost(body)
  \/ DataGet
  \/ Tick

SpecClock == Init /\ [][NextClock]_vars

(***************************************************************************)
(* Properties of the reading store.                                        *)
(***************************************************************************)
AbsentKeysAreNull ==
  \A f \in SensorFields :
    ~Occurs(KeyOf(f), sensorData.raw.s) => sensorData[f] = Null

(* C1: after an ingest whose body carries a string raw line, every sensor  *)
(* field whose key does not occur in that line is null, whatever the       *)
(* reading held before.                                                    *)
C1_NoLeakAcrossIngests ==
  sensorData.raw.t = "string" => AbsentKeysAreNull

(* an ingest of a non-empty line has just cleared a value held before *)
C1_Witness ==
  /\ stale
  /\ sensorData.raw.t = "string"
  /\ sensorData.raw.s # <<>>
  /\ AbsentKeysAreNull

(* C2: when parsing fails entirely (the body carries no string data), the  *)
(* ingest still resets every sensor value and status to absent.            *)
C2_ResetWhenParseFails ==
  sensorData.raw.t # "string" => \A f \in SensorFields : sensorData[f] = Null

(* C3: after any ingest, also one whose parse fails entirely, raw is       *)
(* present and equals the raw input of that call, and timestamp is the     *)
(* receipt instant of that call.                                           *)
C3_RawPresentAfterIngest ==
  [][\A body \in FewBodies :
       DataPost(body) =>
         /\ sensorData'.raw # Undefined
         /\ sensorData'.raw = body
         /\ sensorData'.timestamp = toISOString(now)]_vars

(* the properties of a Reading *)
ReadingFields == SensorFields \cup {"timestamp", "raw"}

(* a response of GET /data: the only body that carries a timestamp *)
IsReading(response) == "timestamp" \in DOMAIN response.body

(* the Reading that one ingest of rawData, received at the instant of      *)
(* stamp, leaves when nothing of an earlier Reading is kept                *)
OneIngest(rawData, stamp) ==
  ParseSensorData(
    [timestamp |-> stamp,
     moisture |-> Null, moistureStatus |-> Null,
     light |-> Null, lightStatus |-> Null,
     water |-> Null, waterStatus |-> Null,
     temperature |-> Null, humidity |-> Null, servo |-> Null,
     raw |-> rawData,
     requestedServoPosition |-> Undefined], rawData)

requestedServoPosition == sensorData.requestedServoPosition

IsPost(entry) == entry.op = "POST /servo"
IsCheck(entry) == entry.op = "GET /servo-check"
Delivered(entry, position) ==
  /\ IsCheck(entry)
  /\ entry.res = [code |-> 200,
                  body |-> [status |-> "success", position |-> position]]
NoRequest(entry) ==
  /\ IsCheck(entry)
  /\ entry.res = [code |-> 200, body |-> [status |-> "no_request"]]

(* C4: after one POST /servo with position p and no further POST /servo,   *)
(* the first GET /servo-check returns success with p and clears the slot,  *)
(* the second returns no_request.                                          *)
C4_DeliveredExactlyOnce ==
  /\ \A i \in 1..(Len(hist) - 1) :
       (IsPost(hist[i]) /\ hist[i].position # Undefined /\ IsCheck(hist[i + 1]))
         => /\ Delivered(hist[i + 1], hist[i].position)
            /\ (i + 2 <= Len(hist) /\ IsCheck(hist[i + 2]))
                 => NoRequest(hist[i + 2])
  /\ (hist # <<>> /\ IsCheck(hist[Len(hist)]))
       => requestedServoPosition = Undefined

C4_Witness ==
  \E i \in 1..(Len(hist) - 2) :
    /\ IsPost(hist[i])
    /\ hist[i].position # Undefined
    /\ Delivered(hist[i + 1], hist[i].position)
    /\ NoRequest(hist[i + 2])
    /\ requestedServoPosition = Undefined

(* C5: a POST /servo whose position is not a number or lies outside 0..180 *)
(* is answered with a client-error status and leaves the mailbox as it was.*)
C5_InvalidPositionRejected ==
  [][\A position \in Positions :
       (~ValidPosition(position) /\ ServoPost(position))
         => /\ res'.code \in 400..499
            /\ requestedServoPosition' = requestedServoPosition]_vars

(* C6: no_request is distinct from position 0: the check that follows a    *)
(* POST /servo with position 0 returns success with position 0, and a      *)
(* check answers no_request only when no command is pending.               *)
C6_ZeroIsNotNoRequest ==
  \A i \in 1..(Len(hist) - 1) :
    /\ (IsPost(hist[i]) /\ hist[i].position = Integer(0) /\ IsCheck(hist[i + 1]))
         => Delivered(hist[i + 1], Integer(0))
    /\ (IsPost(hist[i]) /\ NoRequest(hist[i + 1]))
         => hist[i].position = Undefined

C6_Witness ==
  \E i \in 1..(Len(hist) - 1) :
    /\ IsPost(hist[i])
    /\ hist[i].position = Integer(0)
    /\ Delivered(hist[i + 1], Integer(0))

(* C7: single slot with overwrite: after POST /servo p1 then POST /servo   *)
(* p2 with no poll in between, the next poll returns p2, the poll after    *)
(* that returns no_request, and p1 is never delivered.                     *)
C7_LastCommandWins ==
  \A i \in 1..(Len(hist) - 2) :
    (/\ IsPost(hist[i]) /\ IsPost(hist[i + 1])
     /\ hist[i + 1].position # Undefined
     /\ IsCheck(hist[i + 2]))
      => /\ Delivered(hist[i + 2], hist[i + 1].position)
         /\ (hist[i].position # hist[i + 1].position
               => ~Delivered(hist[i + 2], hist[i].position))
         /\ (i + 3 <= Len(hist) /\ IsCheck(hist[i + 3]))
              => NoRequest(hist[i + 3])

C7_Witness ==
  \E i \in 1..(Len(hist) - 3) :
    /\ IsPost(hist[i]) /\ IsPost(hist[i + 1])
    /\ hist[i].position # Undefined
    /\ hist[i + 1].position # Undefined
    /\ hist[i].position # hist[i + 1].position
    /\ Delivered(hist[i + 2], hist[i + 1].position)
    /\ NoRequest(hist[i + 3])

(* C8: GET /servo-check is the only request that takes the slot from       *)
(* pending to empty: no POST /data, GET /data or POST /servo does.         *)
C8_OnlyPollEmptiesSlot ==
  [][(requestedServoPosition # Undefined /\ requestedServoPosition' = Undefined)
       => ServoCheck]_vars

(* C9: delivery is at most once: the number of polls answered success      *)
(* never exceeds the number of POST /servo requests made so far.           *)
C9_AtMostOnce == nDelivered <= nSet

C9_Witness == nSet >= 2 /\ nDelivered = nSet

(* C10: when a command is pending and the device keeps polling, the        *)
(* command is eventually delivered (the first poll after the last          *)
(* POST /servo returns its position and leaves the slot empty) or          *)
(* replaced by a later POST /servo.                                        *)
LastCommandDelivered ==
  /\ Len(hist) >= 2
  /\ IsPost(hist[Len(hist) - 1])
  /\ Delivered(hist[Len(hist)], hist[Len(hist) - 1].position)
  /\ requestedServoPosition = Undefined

C10_EventuallyDelivered ==
  \A k \in 1..MaxSet :
    (requestedServoPosition # Undefined /\ nSet = k)
      ~> ((nSet = k /\ LastCommandDelivered) \/ nSet > k)

C10_Witness == nSet = MaxSet /\ LastCommandDelivered

(***************************************************************************)
(* The Reading and the mailbox share one object.                           *)
(***************************************************************************)
(* the acknowledgement of POST /data *)
DataReceived ==
  [code |-> 200, body |-> [status |-> "success", message |-> "Data received"]]

(* C27: POST /data leaves the pending command as it was, and POST /servo   *)
(* and GET /servo-check leave every field of the Reading as it was:        *)
(* timestamp, raw and all sensor fields, servo among them.  Each conjunct  *)
(* reads: the part is unchanged, or the step is not such a request.        *)
C27_ReadingAndMailboxIndependent ==
  [][/\ \/ sensorData'.requestedServoPosition
              = sensorData.requestedServoPosition
        \/ ~\E body \in FewBodies : DataPost(body)
     /\ \/ \A f \in ReadingFields : sensorData'[f] = sensorData[f]
        \/ ~((\E position \in Positions : ServoPost(position))
               \/ ServoCheck)]_vars

(* an ingest answered while a command posted before it is pending, after   *)
(* an earlier command was delivered: the Reading has the line's servo      *)
(* angle and the mailbox still has the command                             *)
C27_Witness ==
  /\ res = DataReceived
  /\ nDelivered > 0
  /\ sensorData.requestedServoPosition = Integer(90)
  /\ sensorData.servo = Integer(9)
  /\ sensorData.raw = Str(FullLine)

(***************************************************************************)
(* The parse step alone: one line ingested by a server that holds the      *)
(* initial Reading or the Reading of a full line.                          *)
(***************************************************************************)
BadToken == KeyValue(Light, <<"x">>)
GoodToken == KeyValue(Light, <<"7">>)

(* recognised keys, one of them twice with different values, a value that  *)
(* is no number, an unknown key, and bare words                            *)
ParseTokens ==
  {KeyValue(Moisture, <<"5">>), KeyValue(Moisture, <<"6">>), BadToken,
   KeyValue(Temp, <<"2", ".", "5">>),
   KeyValue(<<"F", "o", "o">>, <<"1">>),
   <<"D", "R", "Y">>, <<" ", "W", "E", "T">>}

(* the lines of at most MaxParts tokens, tokens may repeat *)
ShortLines ==
  {join(ts, ",") : ts \in UNION {[1..n -> ParseTokens] : n \in 0..MaxParts}}

(* well-formed lines: six key groups, Moisture, Light and Water each with  *)
(* its status word                                                         *)
FullGroups ==
  <<<<KeyValue(Moisture, <<"5">>), <<"D", "R", "Y">>>>,
    <<KeyValue(Light, <<"7">>), <<"O", "K">>>>,
    <<KeyValue(Water, <<"3">>), <<"L", "O", "W">>>>,
    <<KeyValue(Temp, <<"2", ".", "5">>)>>,
    <<KeyValue(Humid, <<"6", "0">>)>>,
    <<KeyValue(Servo, <<"9">>)>>>>

OtherGroups ==
  <<<<KeyValue(Moisture, <<"1", "2">>), <<"W", "E", "T">>>>,
    <<KeyValue(Light, <<"0">>), <<"D", "A", "R", "K">>>>,
    <<KeyValue(Water, <<"4", "0">>), <<"O", "K">>>>,
    <<KeyValue(Temp, <<"0", ".", "5">>)>>,
    <<KeyValue(Humid, <<"7">>)>>,
    <<KeyValue(Servo, <<"1", "8", "0">>)>>>>

WellFormed == {FullGroups, OtherGroups}

RECURSIVE Flatten(_)
Flatten(groups) ==
  IF groups = <<>> THEN <<>> ELSE Head(groups) \o Flatten(Tail(groups))

Orders(n) == {p \in [1..n -> 1..n] : \A i, j \in 1..n : p[i] = p[j] => i = j}

LineOf(groups) == join(Flatten(groups), ",")

(* every order of the key groups of a well-formed line *)
PermutedLines ==
  [groups \in WellFormed |->
     {LineOf([i \in 1..6 |-> groups[p[i]]]) : p \in Orders(6)}]

ParseBodies ==
  {Str(l) : l \in ShortLines \cup UNION {PermutedLines[g] : g \in WellFormed}}

NextParse ==
  \/ \E body \in ParseBodies :
       /\ sensorData.raw \in {Str(<<>>), Str(FullLine)}
       /\ DataPost(body)
  \/ DataGet

SpecParse == Init /\ [][NextParse]_vars

(***************************************************************************)
(* Properties of the parse step.                                           *)
(***************************************************************************)
(* the comma-split token sequence of the line last ingested *)
RawParts == split(sensorData.raw.s, ",")

(* tok is a Key:Value token of key: key, then the first colon *)
IsKeyToken(tok, key) ==
  LET t == trim(tok)
  IN  /\ Len(t) > Len(key)
      /\ SubSeq(t, 1, Len(key)) = key
      /\ t[Len(key) + 1] = ":"

IsBare(tok) == \A i \in 1..Len(tok) : tok[i] # ":"

StatusField(key) ==
  IF key = Moisture THEN "moistureStatus"
  ELSE IF key = Light THEN "lightStatus"
  ELSE "waterStatus"

SensorValues(sd) == [f \in SensorFields |-> sd[f]]

(* C18: for a well-formed line with all six keys, each status word right   *)
(* after its key, the parse of any permutation of the key groups yields    *)
(* the values and statuses of the line in its original order.              *)
C18_OrderIndependent ==
  \A groups \in WellFormed :
    sensorData.raw.s \in PermutedLines[groups]
      => SensorValues(sensorData)
           = SensorValues(OneIngest(Str(LineOf(groups)), sensorData.timestamp))

(* a permuted line, Servo first and Moisture last, parsed to all nine      *)
(* fields                                                                  *)
C18_Witness ==
  /\ sensorData.raw.s \in PermutedLines[OtherGroups]
  /\ IsKeyToken(RawParts[1], Servo)
  /\ IsKeyToken(RawParts[Len(RawParts) - 1], Moisture)
  /\ sensorData.moisture = Integer(12)
  /\ sensorData.moistureStatus = Str(<<"W", "E", "T">>)
  /\ sensorData.temperature = Num(5, 1)
  /\ sensorData.servo = Integer(180)
  /\ \A f \in SensorFields : sensorData[f] # Null

(* C19: a status is set by a parse if and only if some occurrence of its   *)
(* key token is immediately followed by a token without a colon, and it    *)
(* is then the trimmed word after such an occurrence; a bare word before   *)
(* its key, or separated from it by a Key:Value token, is not attached.    *)
C19_StatusIffAdjacent ==
  sensorData.raw.t = "string" =>
    \A key \in {Moisture, Light, Water} :
      LET parts == RawParts
          adjacent == {i \in 1..(Len(parts) - 1) :
                         IsKeyToken(parts[i], key) /\ IsBare(parts[i + 1])}
          status == sensorData[StatusField(key)]
      IN  /\ status # Null <=> adjacent # {}
          /\ status # Null
               => \E i \in adjacent : status = Str(trim(parts[i + 1]))

(* Moisture separated from the bare word by the Light token: the word is   *)
(* the status of Light and Moisture has none                               *)
C19_Witness ==
  /\ sensorData.raw.t = "string"
  /\ Len(RawParts) = 3
  /\ IsKeyToken(RawParts[1], Moisture)
  /\ IsKeyToken(RawParts[2], Light)
  /\ IsBare(RawParts[3])
  /\ sensorData.moistureStatus = Null
  /\ sensorData.lightStatus = Str(trim(RawParts[3]))
  /\ sensorData.moisture # Null

(* the line with every token whose value fails to parse replaced by one    *)
(* of the same key whose value parses                                      *)
Repaired(parts) ==
  [i \in 1..Len(parts) |-> IF parts[i] = BadToken THEN GoodToken ELSE parts[i]]

(* C20: a token whose value fails to parse sets only its own field to NaN: *)
(* every other field is what the line yields with that token's value       *)
(* replaced by one that parses, and POST /data is answered success.        *)
C20_BadValueIsLocal ==
  (sensorData.raw.t = "string" /\ \E i \in 1..Len(RawParts) : RawParts[i] = BadToken)
    => LET fixed == OneIngest(Str(join(Repaired(RawParts), ",")),
                              sensorData.timestamp)
       IN  /\ sensorData.light = NaN
           /\ fixed.light = Integer(7)
           /\ \A f \in SensorFields \ {"light"} : sensorData[f] = fixed[f]
           /\ ~IsReading(res) => res = DataReceived

(* the failing token between two recognised tokens, both parsed *)
C20_Witness ==
  /\ sensorData.raw.t = "string"
  /\ Len(RawParts) = 3
  /\ IsKeyToken(RawParts[1], Moisture)
  /\ RawParts[2] = BadToken
  /\ IsKeyToken(RawParts[3], Temp)
  /\ sensorData.moisture \in {Integer(5), Integer(6)}
  /\ sensorData.light = NaN
  /\ sensorData.temperature = Num(25, 1)
  /\ res = DataReceived

(* the six keys the parse step recognises, and the field each one sets *)
Keys == {Moisture, Light, Water, Temp, Humid, Servo}

ValueField(key) ==
  IF key = Moisture THEN "moisture"
  ELSE IF key = Light THEN "light"
  ELSE IF key = Water THEN "water"
  ELSE IF key = Temp THEN "temperature"
  ELSE IF key = Humid THEN "humidity"
  ELSE "servo"

(* the number a Key:Value token of key denotes: the text between its first *)
(* and second colon, read as a float for Temp and Humid, else as an int    *)
ValueOf(tok, key) ==
  LET value == split(trim(tok), ":")[2]
  IN  IF key \in {Temp, Humid} THEN parseFloat(value) ELSE parseInt(value)

Occurrences(parts, key) == {i \in 1..Len(parts) : IsKeyToken(parts[i], key)}

Last(occurrences) == CHOOSE i \in occurrences : \A j \in occurrences : j <= i

(* C21: when a recognised key occurs more than once in a line, its field   *)
(* holds after the parse the value of the last occurrence of the key.      *)
C21_LastOccurrenceWins ==
  sensorData.raw.t = "string" =>
    \A key \in Keys :
      LET occurrences == Occurrences(RawParts, key)
      IN  Cardinality(occurrences) > 1
            => sensorData[ValueField(key)]
                 = ValueOf(RawParts[Last(occurrences)], key)

(* Moisture twice with different values, the smaller one last *)
C21_Witness ==
  /\ sensorData.raw.t = "string"
  /\ Len(RawParts) = 3
  /\ RawParts[1] = KeyValue(Moisture, <<"6">>)
  /\ RawParts[3] = KeyValue(Moisture, <<"5">>)
  /\ sensorData.moisture = Integer(5)

(* a token the parse step passes over: a Key:Value token of no recognised  *)
(* key, or a bare word that does not come right after a Moisture, Light    *)
(* or Water token                                                          *)
Ignored(parts, i) ==
  IF IsBare(parts[i])
  THEN ~(i > 1 /\ \E key \in {Moisture, Light, Water} :
                    IsKeyToken(parts[i - 1], key))
  ELSE \A key \in Keys : ~IsKeyToken(parts[i], key)

(* the parts from the i-th on, the ignored ones left out *)
RECURSIVE Kept(_, _)
Kept(parts, i) ==
  IF i > Len(parts) THEN <<>>
  ELSE (IF Ignored(parts, i) THEN <<>> ELSE <<parts[i]>>) \o Kept(parts, i + 1)

(* C22: tokens of an unrecognised key, and bare words that do not come     *)
(* right after a Moisture, Light or Water token, change no field and raise *)
(* no error: the sensor fields are those of the line without these tokens, *)
(* and POST /data is answered success.                                     *)
C22_IgnoredTokensChangeNothing ==
  sensorData.raw.t = "string" =>
    /\ SensorValues(sensorData)
         = SensorValues(OneIngest(Str(join(Kept(RawParts, 1), ",")),
                                  sensorData.timestamp))
    /\ (res.code # 0 /\ ~IsReading(res)) => res = DataReceived

(* an unknown key between Moisture and a bare word: the word is no status  *)
(* and the unknown key sets nothing                                        *)
C22_Witness ==
  /\ sensorData.raw.t = "string"
  /\ Len(RawParts) = 3
  /\ IsKeyToken(RawParts[1], Moisture)
  /\ RawParts[2] = KeyValue(<<"F", "o", "o">>, <<"1">>)
  /\ IsBare(RawParts[3])
  /\ Kept(RawParts, 1) = <<RawParts[1]>>
  /\ sensorData.moisture # Null
  /\ \A f \in SensorFields \ {"moisture"} : sensorData[f] = Null
  /\ res = DataReceived

(* C26: for Moisture, Light or Water occurring more than once in a line,   *)
(* the status after the parse is the bare word right after the last        *)
(* occurrence of the key, and absent when no bare word follows it.         *)
C26_StatusOfLastOccurrence ==
  sensorData.raw.t = "string" =>
    \A key \in {Moisture, Light, Water} :
      LET parts == RawParts
          occurrences == Occurrences(parts, key)
          last == Last(occurrences)
      IN  Cardinality(occurrences) > 1
            => sensorData[StatusField(key)]
                 = IF last < Len(parts) /\ IsBare(parts[last + 1])
                   THEN Str(trim(parts[last + 1]))
                   ELSE Null

saveSystemLog(message) ==
  saveLog("system", message, LogData(Undefined, Undefined, ""))

(* the process before app.prepare() has resolved *)
Preparing == [database |-> "connecting", listening |-> FALSE]

(* app.prepare().then(async () => {...}): connectToDatabase is awaited     *)
(* inside the try block that also sets the routes up and calls             *)
(* server.listen.  Connected: the models are defined, the server listens   *)
(* and two system logs are started.  Not connected: connectToDatabase      *)
(* throws the error again, the catch calls saveErrorLog, which returns     *)
(* false since Log is not defined, and server.listen is never reached.     *)
Setup(connected) ==
  /\ server = Preparing
  /\ IF connected
     THEN /\ server' = Listening
          /\ inflight' =
               Started(inflight,
                 <<saveSystemLog("Server initializing"),
                   saveSystemLog("Server started and listening on port 8080")>>)
          /\ UNCHANGED resolved
     ELSE /\ server' = [database |-> "unavailable", listening |-> FALSE]
          /\ resolved' = resolved \cup {Promise("saveLog", "false")}
          /\ UNCHANGED inflight
  /\ UNCHANGED <<sensorData, res, now, hist, nSet, nDelivered, stale, files, db,
                 failed, ingested, query>>

(***************************************************************************)
(* The integrated server: requests, and the settling of what they started. *)
(***************************************************************************)
DurableBodies ==
  {Str(KeyValue(Moisture, <<"5">>)), Str(KeyValue(Temp, <<"2", ".", "5">>))}

DurablePositions == {Integer(90)}

FaultyBodies == {Str(KeyValue(Moisture, <<"5">>)), Undefined}

InFlight == BagToSet(inflight)
Quiet == inflight = EmptyBag

(* every write succeeds; requests arrive while earlier writes are in flight *)
NextDurable ==
  \/ \E body \in DurableBodies : IntegratedDataPost(body)
  \/ \E position \in DurablePositions :
       nSet < MaxServo /\ IntegratedServoPost(position)
  \/ \E call \in InFlight : AppendFileCallback(call, FALSE)
  \/ \E call \in InFlight : SaveSettled(call, TRUE)
  \/ DataGet
  \/ ServoCheck

SpecDurable == Init /\ [][NextDurable]_vars

(* any write may fail *)
NextFaulty ==
  \/ \E body \in FaultyBodies :
       Len(ingested) < MaxFaulty /\ IntegratedDataPost(body)
  \/ \E call \in InFlight, err \in BOOLEAN : AppendFileCallback(call, err)
  \/ \E call \in InFlight, ok \in BOOLEAN : SaveSettled(call, ok)

SpecFaulty == Init /\ [][NextFaulty]_vars

(* the device-facing requests of the integrated server, any database      *)
(* write may fail; the device polls while a command is pending             *)
NextCompatible ==
  \/ \E body \in FaultyBodies :
       Len(ingested) + nSet < MaxRequests /\ IntegratedDataPost(body)
  \/ \E position \in DurablePositions :
       Len(ingested) + nSet < MaxRequests /\ IntegratedServoPost(position)
  \/ \E call \in InFlight : AppendFileCallback(call, FALSE)
  \/ \E call \in InFlight, ok \in BOOLEAN : SaveSettled(call, ok)
  \/ DataGet
  \/ sensorData.requestedServoPosition # Undefined /\ ServoCheck

SpecCompatible == Init /\ [][NextCompatible]_vars

(* the 'error' record of a POST /data that threw *)
ProcessingError ==
  saveErrorLog("Error processing data request", "TypeError")

(* the requests that threw so far, by their records stored or in flight *)
Thrown ==
  Cardinality({k \in DOMAIN db.Log : db.Log[k] = ProcessingError.doc})
    + CopiesIn(ProcessingError, inflight)

(* POST /data with and without a parsed body, database writes may fail *)
NextThrow ==
  \/ \E body \in DurableBodies :
       Len(ingested) < MaxThrown /\ IntegratedDataPost(body)
  \/ Thrown < MaxThrown /\ IntegratedDataPostNoBody
  \/ \E call \in InFlight : AppendFileCallback(call, FALSE)
  \/ \E call \in InFlight, ok \in BOOLEAN : SaveSettled(call, ok)

SpecThrow == Init /\ [][NextThrow]_vars

(* the process from its start: the routes exist once the server listens;  *)
(* the database writes succeed once the connection is made                 *)
InitStart ==
  /\ now = 0
  /\ sensorData = OneIngest(Str(<<>>), toISOString(0))
  /\ res = [code |-> 0, body |-> [status |-> "none"]]
  /\ hist = <<>>
  /\ nSet = 0
  /\ nDelivered = 0
  /\ stale = FALSE
  /\ files = [sensor_data |-> <<>>, sensors_data_csv |-> <<>>,
              servo_control |-> <<>>]
  /\ db = [SensorData |-> <<>>, Log |-> <<>>]
  /\ inflight = EmptyBag
  /\ failed = {}
  /\ ingested = <<>>
  /\ query = [path |-> "none"]
  /\ server = Preparing
  /\ resolved = {}

NextStart ==
  \/ \E connected \in BOOLEAN : Setup(connected)
  \/ \E body \in DurableBodies :
       /\ server.listening
       /\ Len(ingested) + nSet < MaxRequests
       /\ IntegratedDataPost(body)
  \/ \E position \in DurablePositions :
       /\ server.listening
       /\ Len(ingested) + nSet < MaxRequests
       /\ IntegratedServoPost(position)
  \/ \E call \in InFlight : AppendFileCallback(call, FALSE)
  \/ \E call \in InFlight : SaveSettled(call, TRUE)
  \/ server.listening /\ DataGet
  \/ server.listening /\ sensorData.requestedServoPosition # Undefined
       /\ ServoCheck

(* app.prepare() resolves, and its continuation runs to its end *)
SpecStart ==
  InitStart /\ [][NextStart]_vars
    /\ WF_vars(\E connected \in BOOLEAN : Setup(connected))

(***************************************************************************)
(* The queries alone: the server comes up with the initial Reading over a  *)
(* database that earlier runs have filled, and answers one query (a query  *)
(* changes nothing that a later one reads).                                *)
(***************************************************************************)
Stamps == 0..MaxStamp

(* the query strings limit and skip *)
Limits == {Undefined, Str(<<"0">>), Str(<<"1">>), Str(<<"2">>)}
Skips == {Undefined, Str(<<"1">>)}

(* the query strings type, startDate and endDate *)
Kinds == {"", "sensor", "servo"}
Dates == {Undefined} \cup {toISOString(k) : k \in Stamps}

(* the documents of earlier ingests and servo requests *)
Readings ==
  {NewSensorData(OneIngest(Str(KeyValue(Moisture, <<"5">>)), toISOString(k))) :
     k \in Stamps}

Records ==
  {LogDoc(Date(toISOString(k)), "sensor", "Sensor data received",
          LogData(Str(KeyValue(Moisture, <<"5">>)), Undefined, "")) :
     k \in Stamps}
  \cup {LogDoc(Date(toISOString(k)), "servo", "Servo position set to",
               LogData(Undefined, Integer(90), "")) : k \in Stamps}

(* a database holds readings or log records, in the order of their saves *)
Databases ==
  {[SensorData |-> docs, Log |-> <<>>] :
     docs \in UNION {[1..n -> Readings] : n \in 0..MaxReadings}}
  \cup {[SensorData |-> <<>>, Log |-> docs] :
          docs \in UNION {[1..n -> Records] : n \in 0..MaxRecords}}

InitQuery ==
  /\ now = 0
  /\ sensorData = OneIngest(Str(<<>>), toISOString(0))
  /\ res = [code |-> 0, body |-> [status |-> "none"]]
  /\ hist = <<>>
  /\ nSet = 0
  /\ nDelivered = 0
  /\ stale = FALSE
  /\ files = [sensor_data |-> <<>>, sensors_data_csv |-> <<>>,
              servo_control |-> <<>>]
  /\ db \in Databases
  /\ inflight = EmptyBag
  /\ failed = {}
  /\ ingested = <<>>
  /\ query = [path |-> "none"]
  /\ server = Listening
  /\ resolved = {}

Asked == query.path # "none"

NextQuery ==
  \/ \E limitQ \in Limits, skipQ \in Skips, ok \in BOOLEAN :
       ~Asked /\ DataHistoryGet(limitQ, skipQ, ok)
  \/ \E type \in Kinds, startDate, endDate \in Dates, ok \in BOOLEAN :
       ~Asked /\ LogsGet(type, Undefined, Undefined, startDate, endDate, ok)
  \/ \E call \in InFlight : SaveSettled(call, TRUE)

SpecQuery == InitQuery /\ [][NextQuery]_vars

(***************************************************************************)
(* Properties of the durable writes.                                       *)
(***************************************************************************)
(* The integrated server against the file-based server.                    *)
(***************************************************************************)
(* what POST /data and POST /servo of the file-based server do to the      *)
(* memory and answer                                                       *)
FileDataPost(body) ==
  /\ sensorData' =
       ParseSensorData([sensorData EXCEPT !.raw = body,
                                          !.timestamp = toISOString(now)],
                       body)
  /\ res' = [code |-> 200,
             body |-> [status |-> "success", message |-> "Data received"]]

FileServoPost(position) ==
  /\ sensorData' = [sensorData EXCEPT !.requestedServoPosition = position]
  /\ res' = [code |-> 200,
             body |-> WithPosition(
                        [status |-> "success",
                         message |-> "Servo position request received"],
                        position)]

Sinks == {"sensor_data", "sensors_data_csv", "SensorData", "Log"}

(* C12: when a durable write of an ingest has failed (file log, CSV,       *)
(* history or log save), the POST /data request is answered success and    *)
(* the Reading in memory holds the raw line, the receipt instant and       *)
(* exactly the fields parsed from that line.                               *)
C12_WriteFailureKeepsReading ==
  failed # {} =>
    /\ res = DataReceived
    /\ sensorData.raw = ingested[Len(ingested)]
    /\ sensorData.raw.t = "string"
         => SensorValues(sensorData)
              = SensorValues(OneIngest(sensorData.raw, sensorData.timestamp))

(* every sink has failed a write of the ingest of Moisture:5 *)
C12_Witness ==
  /\ failed = Sinks
  /\ Quiet
  /\ res = DataReceived
  /\ sensorData.moisture = Integer(5)
  /\ Len(db.SensorData) = 0 /\ Len(db.Log) = 0
  /\ Len(files.sensor_data) = 0 /\ Len(files.sensors_data_csv) = 0

CountType(type) == Cardinality({i \in DOMAIN db.Log : db.Log[i].type = type})

(* once every write has settled: a Reading and a sensor record for every   *)
(* POST /data, a servo record for every POST /servo                        *)
RecordCounts ==
  Quiet => /\ Len(db.SensorData) = Len(ingested)
           /\ CountType("sensor") = Len(ingested)
           /\ CountType("servo") = nSet

(* the sensor records reference the raw strings of the ingests, each as    *)
(* often as it was ingested                                                *)
SensorLogsReferenceRaw ==
  Quiet =>
    \A body \in DurableBodies :
      Cardinality({i \in DOMAIN db.Log :
                     db.Log[i].type = "sensor" /\ db.Log[i].data.raw = body})
        = Cardinality({i \in DOMAIN ingested : ingested[i] = body})

(* C13: with the sinks available, each POST /data appends exactly one      *)
(* sensor record, referencing the raw string of that ingest, and one       *)
(* Reading; each POST /servo appends exactly one servo record; no other    *)
(* request appends any.                                                    *)
C13_OneRecordPerRequest == RecordCounts /\ SensorLogsReferenceRaw

(* C14: the durable writes of an ingest fail independently: when no write  *)
(* to a sink has failed, that sink holds its entry for every ingest,       *)
(* whatever has failed elsewhere.                                          *)
C14_IndependentFailures ==
  Quiet =>
    /\ "Log" \notin failed => CountType("sensor") = Len(ingested)
    /\ "sensor_data" \notin failed => Len(files.sensor_data) = Len(ingested)
    /\ "SensorData" \notin failed => Len(db.SensorData) = Len(ingested)

(***************************************************************************)
(* Properties of the queries.                                              *)
(***************************************************************************)
(* the number a query string denotes, or the default when it is missing *)
Given(q, fallback) == IF q.t = "string" THEN parseInt(q.s).n ELSE fallback

Newer(docs, doc) ==
  {i \in DOMAIN docs : docs[i].timestamp.n > doc.timestamp.n}
NotOlder(docs, doc) ==
  {i \in DOMAIN docs : docs[i].timestamp.n >= doc.timestamp.n}
Times(docs, doc) == Cardinality({i \in DOMAIN docs : docs[i] = doc})

(* rows are the documents of docs at the newest-first positions            *)
(* first .. min(n, first + count) - 1, counted from 0                      *)
IsPage(rows, docs, first, count) ==
  LET n == Len(docs)
      last == IF first + count < n THEN first + count ELSE n
  IN  /\ Len(rows) = IF last > first THEN last - first ELSE 0
      /\ \A j \in DOMAIN rows :
           /\ Times(rows, rows[j]) <= Times(docs, rows[j])
           /\ Cardinality(Newer(docs, rows[j])) <= first + j - 1
           /\ first + j <= Cardinality(NotOlder(docs, rows[j]))

IsHistory == query.path = "/data/history" /\ res.code = 200

(* C15: history(limit, skip) returns exactly the readings at the          *)
(* newest-first positions skip .. min(n, skip + limit) - 1.                *)
C15_HistoryPage ==
  IsHistory =>
    IsPage(res.body.rows, db.SensorData,
           Given(query.skip, 0), Given(query.limit, DefaultLimit))

(* what the route does answer: that page for every limit of at least 1,   *)
(* and for a limit of 0 the page of a limit not given, the default         *)
HistoryPageOrDefault ==
  IsHistory =>
    LET asked == Given(query.limit, DefaultLimit)
    IN  IsPage(res.body.rows, db.SensorData, Given(query.skip, 0),
               IF asked = 0 THEN DefaultLimit ELSE asked)

(* limit=2 over three readings of three instants, saved oldest first: the  *)
(* two most recent, newest first                                           *)
HistoryOfTwo ==
  /\ IsHistory
  /\ query.limit = Str(<<"2">>) /\ query.skip = Undefined
  /\ Len(db.SensorData) = 3
  /\ db.SensorData[1].timestamp.n < db.SensorData[2].timestamp.n
  /\ db.SensorData[2].timestamp.n < db.SensorData[3].timestamp.n
  /\ res.body.rows = <<db.SensorData[3], db.SensorData[2]>>

IsLogs == query.path = "/logs" /\ res.code = 200

(* record is of the kind and within the bounds that the query gives *)
Wanted(record) ==
  /\ query.type \in {"sensor", "servo"} => record.type = query.type
  /\ query.startDate # Undefined => query.startDate.n <= record.timestamp.n
  /\ query.endDate # Undefined => record.timestamp.n <= query.endDate.n

(* C16: logs({type, startDate, endDate}) returns, newest first, exactly    *)
(* the records of that kind whose timestamp lies within the bounds given,  *)
(* both inclusive.                                                         *)
C16_LogsFiltered ==
  IsLogs =>
    LET rows == res.body.rows
    IN  /\ \A j \in DOMAIN rows :
             /\ Wanted(rows[j])
             /\ Times(rows, rows[j]) = Times(db.Log, rows[j])
        /\ \A i \in DOMAIN db.Log :
             Wanted(db.Log[i]) => \E j \in DOMAIN rows : rows[j] = db.Log[i]
        /\ \A j \in 1..(Len(rows) - 1) :
             rows[j].timestamp.n >= rows[j + 1].timestamp.n

(* sensor records from instant 1 to instant 1: the one at that instant is  *)
(* returned, the other record of the log is not                            *)
C16_Witness ==
  /\ IsLogs
  /\ query.type = "sensor"
  /\ query.startDate = toISOString(1) /\ query.endDate = toISOString(1)
  /\ Len(db.Log) = 2
  /\ Len(res.body.rows) = 1
  /\ res.body.rows[1].type = "sensor"
  /\ res.body.rows[1].timestamp.n = 1
  /\ \E i \in DOMAIN db.Log : db.Log[i] = res.body.rows[1]

(* C17: the queries are read-only.  Where every request is a query, no     *)
(* step changes the Reading, the mailbox, the files or the collections;    *)
(* and a query over an empty collection returns an empty sequence.         *)
C17_QueriesReadOnly ==
  /\ [][/\ sensorData' = sensorData
        /\ files' = files
        /\ db' = db]_vars
  /\ []((IsHistory /\ Len(db.SensorData) = 0) => res.body.rows = <<>>)
  /\ []((IsLogs /\ Len(db.Log) = 0) => res.body.rows = <<>>)

(***************************************************************************)
(* Ingests that overtake the writes of earlier ingests.                    *)
(***************************************************************************)
(* C28: once the appends of all ingests have completed, sensors_data.csv   *)
(* holds the header line exactly once, as its first line, followed by one  *)
(* data row per ingest.                                                    *)
C28_CsvHeaderOnce ==
  (Quiet /\ Len(ingested) > 0) =>
    LET csv == files.sensors_data_csv
    IN  /\ Len(csv) = 1 + Len(ingested)
        /\ csv[1] = csvHeaders
        /\ \A i \in 2..Len(csv) : csv[i].kind = "row"

(* the history document of the Reading that the i-th ingest left *)
Snapshot(i) == NewSensorData(OneIngest(ingested[i], toISOString(now)))

(* C29: every Reading in the history is the Reading exactly as one ingest  *)
(* left it, and once all saves have settled every ingest has its own,      *)
(* also when a later ingest changed the object before the save settled.    *)
C29_HistoryIsSnapshot ==
  /\ \A k \in DOMAIN db.SensorData :
       \E i \in DOMAIN ingested : db.SensorData[k] = Snapshot(i)
  /\ Quiet => \A i \in DOMAIN ingested :
                \E k \in DOMAIN db.SensorData : db.SensorData[k] = Snapshot(i)

(* two ingests of different lines, the Reading of the first saved after    *)
(* the Reading of the second                                               *)
C29_Witness ==
  /\ Quiet
  /\ Len(ingested) = 2
  /\ ingested[1] # ingested[2]
  /\ sensorData.raw = ingested[2]
  /\ db.SensorData = <<Snapshot(2), Snapshot(1)>>

(***************************************************************************)
(* The promises of the database functions.                                 *)
(***************************************************************************)
(* the Log documents with this message, stored or with their save in       *)
(* flight                                                                  *)
Logged(message) ==
  {db.Log[i] : i \in {k \in DOMAIN db.Log : db.Log[k].message = message}}
    \cup {call.doc : call \in {c \in InFlight :
                                  /\ IsSave(c)
                                  /\ c.collection = "Log"
                                  /\ c.doc.message = message}}

(* saveSensorData and saveLog never reject, the rejection handler of POST  *)
(* /data never runs, and a failed save of a Reading leaves no 'error'      *)
(* record; each resolves to false when its own save() fails                *)
NeverReject ==
  /\ \A promise \in resolved : promise.value \in {"true", "false"}
  /\ Logged("Error saving sensor data to MongoDB") = {}
  /\ "SensorData" \in failed <=> Promise("saveSensorData", "false") \in resolved
  /\ "Log" \in failed <=> Promise("saveLog", "false") \in resolved

(* C30 as stated: they never reject, and resolve to false on any database  *)
(* failure and to true on success, so saveSensorData has resolved to true  *)
(* only when both the Reading and its 'sensor' record are stored.          *)
C30_ResolveFalseOnAnyFailure ==
  /\ NeverReject
  /\ Promise("saveSensorData", "true") \in resolved
       => Len(db.SensorData) > 0 /\ CountType("sensor") > 0

(* C30, amended: they never reject; each resolves to false when its own    *)
(* save() fails and to true when it succeeds, and saveSensorData resolves  *)
(* to true once its Reading is stored, whatever became of the 'sensor'     *)
(* record it writes next.                                                  *)
C30_NeverRejectOwnSaveDecides ==
  /\ NeverReject
  /\ Promise("saveSensorData", "true") \in resolved => Len(db.SensorData) > 0
  /\ Promise("saveLog", "true") \in resolved => Len(db.Log) > 0

(* the save of a Reading has failed and everything has settled: the        *)
(* promise resolved to false and no 'error' record was written             *)
C30_Witness ==
  /\ Quiet
  /\ failed = {"SensorData"}
  /\ resolved = {Promise("saveSensorData", "false")}
  /\ db.Log = <<>>
  /\ res = DataReceived

(***************************************************************************)
(* An exception outside the guarded parse step.                            *)
(***************************************************************************)
(* C24: a POST /data whose handling throws outside the parse step is       *)
(* answered 500 with {status: 'error', message}, never with success, and   *)
(* an 'error' record for it is handed to the log.                          *)
C24_ExceptionIsServerError ==
  [][IntegratedDataPostNoBody
       => /\ res'.code = 500
          /\ DOMAIN res'.body = {"status", "message"}
          /\ res'.body.status = "error"
          /\ \E call \in BagToSet(inflight') :
               /\ IsSave(call) /\ call.collection = "Log"
               /\ call.doc.type = "error"
               /\ CopiesIn(call, inflight') = CopiesIn(call, inflight) + 1]_vars

(* the request was answered 500 and its 'error' record is stored, next to  *)
(* the records of an ingest that succeeded                                 *)
C24_Witness ==
  /\ res = ServerError("TypeError")
  /\ Quiet
  /\ CountType("error") = 1
  /\ CountType("sensor") = 1
  /\ Len(ingested) = 1

(***************************************************************************)
(* C25: a database connection that fails at the start of the process does  *)
(* not stop the server: it still eventually listens, and so serves         *)
(* POST /data, GET /data, POST /servo and GET /servo-check from the        *)
(* Reading it holds in memory.                                             *)
(***************************************************************************)
C25_ServesWithoutDatabase ==
  (server.database = "unavailable") ~> server.listening

====
